---- MODULE Spec2Model ----
(***************************************************************************)
(* The extraction pipeline of src/full_extract.py: block segmentation,     *)
(* batched model extraction with concurrent dispatch, the orchestrator's   *)
(* fallback to the deterministic extractor, the price/keyword gate and the *)
(* post-filter, for the two entry points run_crawl4ai_scraper and          *)
(* url_scraper.                                                            *)
(*                                                                         *)
(* Text is modelled at the granularity the code looks at it.  A title is   *)
(* the sequence of its whitespace-separated tokens; a span of a document   *)
(* is a record of what the code's regular expressions find in it.  An      *)
(* optional value (Python None) is the empty sequence, a present value v   *)
(* is <<v>>.                                                               *)
(***************************************************************************)
EXTENDS Integers, Sequences, FiniteSets, TLC

None == <<>>
Some(v) == <<v>>

RECURSIVE SumSeq(_)
SumSeq(s) == IF s = <<>> THEN 0 ELSE Head(s) + SumSeq(Tail(s))

RECURSIVE Concat(_)
Concat(ss) == IF ss = <<>> THEN <<>> ELSE Head(ss) \o Concat(Tail(ss))

Max(S) == CHOOSE x \in S : \A y \in S : y <= x

(***************************************************************************)
(* Words.  str.lower() and len() of the tokens the model uses, and the     *)
(* substrings of a lowercase token among the needles the code searches     *)
(* for (query keywords, product_indicators, bad_indicators,                *)
(* product_type_words).  No needle holds whitespace, so a needle occurs in *)
(* a title exactly when it occurs in one of its tokens.                    *)
(***************************************************************************)
LowerWord(w) ==
    CASE w = "Widget" -> "widget"
      [] w = "WIDGET" -> "widget"
      [] w = "Gadget" -> "gadget"
      [] w = "Professional" -> "professional"
      [] w = "Smartphone" -> "smartphone"
      [] w = "TV" -> "tv"
      [] w = "Cart" -> "cart"
      [] w = "Pro" -> "pro"
      [] w = "128GB" -> "128gb"
      [] OTHER -> w

\* len() of a lowercase token
LowerLen(lw) ==
    CASE lw = "widget" -> 6
      [] lw = "gadget" -> 6
      [] lw = "professional" -> 12
      [] lw = "smartphone" -> 10
      [] lw = "tv" -> 2
      [] lw = "cart" -> 4
      [] lw = "pro" -> 3
      [] lw = "128gb" -> 5
      [] OTHER -> 1

WordLen(w) == LowerLen(LowerWord(w))

Substrings(lw) ==
    CASE lw = "widget" -> {"widget"}
      [] lw = "gadget" -> {"gadget"}
      [] lw = "professional" -> {"pro"}
      [] lw = "smartphone" -> {"smart", "phone"}
      [] lw = "tv" -> {"tv"}
      [] lw = "cart" -> {"cart"}
      [] lw = "pro" -> {"pro"}
      [] lw = "128gb" -> {"gb"}
      [] OTHER -> {}

\* title.lower(), token by token
LowerTitle(t) == [i \in 1..Len(t) |-> LowerWord(t[i])]

\* len(title): the tokens and one space between neighbours
TitleLen(t) ==
    IF t = <<>> THEN 0
    ELSE SumSeq([i \in 1..Len(t) |-> WordLen(t[i])]) + (Len(t) - 1)

\* needle in title.lower()
InTitle(needle, t) == \E i \in 1..Len(t) : needle \in Substrings(LowerWord(t[i]))

\* len([w for w in title.split() if len(w) > 1])
WordCount(t) == Cardinality({i \in 1..Len(t) : WordLen(t[i]) > 1})

T_Full == <<"Widget", "Professional", "Smartphone">>
T_FullUp == <<"WIDGET", "Professional", "Smartphone">>
T_Other == <<"Gadget", "Professional", "Smartphone">>
T_Short == <<"TV">>
T_Heading == <<"Widget", "Pro", "128GB">>
T_HeadingLong == <<"Widget", "Professional", "Smartphone", "128GB">>

(***************************************************************************)
(* Spans.  A span is one piece of the page that re.split of               *)
(* split_markdown_to_product_blocks yields, stripped, described by what    *)
(* the code's patterns find in it:                                         *)
(*   len      len(block)                                                   *)
(*   noise    some noise_patterns entry of the segmenter matches           *)
(*   skip     some skip_patterns entry of the field extractor matches      *)
(*   tokens   the currency-prefixed numeric tokens, in text order: cur is  *)
(*            the prefix, digits the value of int(match.replace(',', ''))  *)
(*            or None when int() raises ValueError (a match of commas)     *)
(*   phrase   a "price|deal|offer <number>" phrase without currency        *)
(*   words    the lowercase whole words of the running text                *)
(*   link     the URL of the first markdown link, or None                  *)
(*   heading  the text of the span's first line when it was a "## "        *)
(*            heading, whose marker re.split consumed, or None             *)
(*   titles   the matches of title_patterns after the clean-up, in the     *)
(*            order the loops visit them                                   *)
(***************************************************************************)
Tok(cur, n) == [cur |-> cur, digits |-> Some(n)]

S_Widget ==
    [len |-> 3000, noise |-> FALSE, skip |-> FALSE,
     tokens |-> <<Tok("rupee", 12999)>>, phrase |-> FALSE,
     words |-> {"buy"}, link |-> Some("https://x/dp/1"), heading |-> None,
     titles |-> <<T_Full>>]

S_WidgetUp ==
    [len |-> 100, noise |-> FALSE, skip |-> FALSE,
     tokens |-> <<Tok("rupee", 12999), Tok("rupee", 5)>>, phrase |-> FALSE,
     words |-> {}, link |-> None, heading |-> None, titles |-> <<T_Short, T_FullUp>>]

S_Cheap ==
    [len |-> 2900, noise |-> FALSE, skip |-> FALSE,
     tokens |-> <<Tok("rupee", 500), [cur |-> "rupee", digits |-> None]>>,
     phrase |-> FALSE,
     words |-> {"stock"}, link |-> None, heading |-> None, titles |-> <<T_Other>>]

S_Over ==
    [len |-> 150, noise |-> FALSE, skip |-> FALSE,
     tokens |-> <<Tok("rupee", 99999999)>>, phrase |-> FALSE,
     words |-> {"offer"}, link |-> None, heading |-> None, titles |-> <<T_Full>>]

S_Nav ==
    [len |-> 100, noise |-> TRUE, skip |-> TRUE,
     tokens |-> <<>>, phrase |-> FALSE,
     words |-> {"cart"}, link |-> None, heading |-> None, titles |-> <<>>]

\* "## Widget Pro 128GB\nRs. 12,999\n[buy](https://x/dp/1)" after re.split: no
\* title pattern matches once the heading marker is gone
S_Heading ==
    [len |-> 49, noise |-> FALSE, skip |-> FALSE,
     tokens |-> <<Tok("rs", 12999)>>, phrase |-> FALSE,
     words |-> {"buy"}, link |-> Some("https://x/dp/1"), heading |-> Some(T_Heading),
     titles |-> <<>>]

\* the same block with a longer heading and more running text
S_HeadingLong ==
    [len |-> 173, noise |-> FALSE, skip |-> FALSE,
     tokens |-> <<Tok("rs", 12999)>>, phrase |-> FALSE,
     words |-> {"buy", "stock", "available"}, link |-> Some("https://x/dp/1"),
     heading |-> Some(T_HeadingLong), titles |-> <<>>]

\* "Sign in | Your Account | Cart"
S_SignIn ==
    [len |-> 29, noise |-> TRUE, skip |-> FALSE,
     tokens |-> <<>>, phrase |-> FALSE,
     words |-> {"sign", "in", "your", "account", "cart"}, link |-> None,
     heading |-> None, titles |-> <<>>]

\* a product block that holds "Sort by" next to its title and price
S_Sorted ==
    [len |-> 200, noise |-> TRUE, skip |-> FALSE,
     tokens |-> <<Tok("rupee", 12999)>>, phrase |-> FALSE,
     words |-> {"sort", "by", "buy"}, link |-> None, heading |-> None,
     titles |-> <<T_Full>>]

\* "**Widget Professional Smartphone**\nRs. 12,999\n..." with running text:
\* the bold title pattern matches, the price has the "Rs." prefix
S_Bold ==
    [len |-> 140, noise |-> FALSE, skip |-> FALSE,
     tokens |-> <<Tok("rs", 12999)>>, phrase |-> FALSE,
     words |-> {"delivery", "stock", "buy", "offer"}, link |-> None, heading |-> None,
     titles |-> <<T_Full>>]

\* a product block priced above the fallback's default max_price and within
\* the range of a query
S_Lakh ==
    [len |-> 150, noise |-> FALSE, skip |-> FALSE,
     tokens |-> <<Tok("rupee", 150000)>>, phrase |-> FALSE,
     words |-> {"offer"}, link |-> None, heading |-> None, titles |-> <<T_Full>>]

\* a product block whose only price is the lower plausibility bound
S_Ten ==
    [len |-> 150, noise |-> FALSE, skip |-> FALSE,
     tokens |-> <<Tok("rupee", 10)>>, phrase |-> FALSE,
     words |-> {"buy"}, link |-> None, heading |-> None, titles |-> <<T_Full>>]

\* "**Widget Pro 128GB**\n<rupee sign>12,999\n..." with running text: the bold
\* title pattern matches a title of 16 characters
S_ShortTitle ==
    [len |-> 130, noise |-> FALSE, skip |-> FALSE,
     tokens |-> <<Tok("rupee", 12999)>>, phrase |-> FALSE,
     words |-> {"delivery", "stock", "buy", "offer"}, link |-> None, heading |-> None,
     titles |-> <<T_Heading>>]

\* a product block whose price is between the field extractor's lower bound
\* and the post-filter's
S_Budget ==
    [len |-> 150, noise |-> FALSE, skip |-> FALSE,
     tokens |-> <<Tok("rupee", 25)>>, phrase |-> FALSE,
     words |-> {"buy"}, link |-> None, heading |-> None, titles |-> <<T_Full>>]

\* a product block without blank line or heading that is longer than the
\* chunking budget
S_Huge ==
    [len |-> 6100, noise |-> FALSE, skip |-> FALSE,
     tokens |-> <<Tok("rupee", 12999)>>, phrase |-> FALSE,
     words |-> {"buy"}, link |-> None, heading |-> None, titles |-> <<T_Full>>]

Spans == {S_Widget, S_WidgetUp, S_Cheap, S_Over, S_Nav}

\* the longest document, in spans
MaxSpans == 2

RECURSIVE SeqsUpTo(_, _)
SeqsUpTo(S, n) ==
    IF n = 0 THEN {<<>>}
    ELSE LET shorter == SeqsUpTo(S, n - 1)
         IN shorter \cup {Append(s, x) : s \in {t \in shorter : Len(t) = n - 1}, x \in S}

Docs == SeqsUpTo(Spans, MaxSpans)

\* the lowercase words of a span: the running text and the title matches
BlockWords(b) ==
    b.words \cup
    UNION {{LowerWord(b.titles[i][j]) : j \in 1..Len(b.titles[i])} : i \in 1..Len(b.titles)}
    \cup UNION {{LowerWord(b.heading[i][j]) : j \in 1..Len(b.heading[i])} :
                    i \in 1..Len(b.heading)}

\* kw in block.lower(), for a needle without whitespace
InBlock(needle, b) == \E w \in BlockWords(b) : needle = w \/ needle \in Substrings(w)

\* block_has_price: a currency-prefixed number, or a price/deal/offer phrase
block_has_price(b) == b.tokens # <<>> \/ b.phrase

\* the word list of looks_like_product_block's has_product_words
ShapeWords ==
    {"tv", "television", "inch", "cm", "uhd", "fhd", "oled", "qled", "smart", "buy",
     "price", "offer", "discount", "deal", "product", "model", "brand", "rating",
     "ratings", "review", "reviews"}

\* the word list of the segmenter's has_product_words
SegmenterWords ==
    {"buy", "price", "offer", "discount", "sale", "deal", "product", "item", "model",
     "brand", "available", "stock", "delivery", "shipping", "star", "stars", "rating",
     "ratings", "review", "reviews"}

RatingWords == {"rating", "ratings", "review", "reviews"}

\* the URLs the model uses that match /dp/, /gp/aw/d/, /gp/product/ or /s?
ProductUrls == {"https://x/dp/1"}

looks_like_product_block(b, query_keywords) ==
    IF b.len < 120 THEN FALSE
    ELSE LET has_query_keyword ==
                 \E i \in 1..Len(query_keywords) :
                     /\ InBlock(query_keywords[i], b)
                     /\ WordLen(query_keywords[i]) > 2
             has_product_words == BlockWords(b) \cap ShapeWords # {}
             has_product_link == b.link # None /\ b.link[1] \in ProductUrls
             has_rating == BlockWords(b) \cap RatingWords # {}
         IN IF block_has_price(b) THEN TRUE
            ELSE /\ has_product_words \/ has_query_keyword
                 /\ has_product_link \/ has_rating \/ b.len >= 220

\* the minimum of "if len(block) < 80"
MinBlockLen == 80

\* the loop's body without the noise_patterns test
KeepSpan_NoDenylist(b, query_keywords) ==
    IF b.len < MinBlockLen THEN FALSE
    ELSE LET has_product_words == BlockWords(b) \cap SegmenterWords # {}
             has_query_keyword ==
                 \E i \in 1..Len(query_keywords) : InBlock(query_keywords[i], b)
         IN \/ block_has_price(b) /\ (b.len >= 180 \/ has_product_words \/ has_query_keyword)
            \/ looks_like_product_block(b, query_keywords)

\* the body of the segmenter's loop: is this span appended to filtered_blocks
KeepSpan(b, query_keywords) ==
    IF b.len < MinBlockLen THEN FALSE
    ELSE IF b.noise THEN FALSE
    ELSE LET has_price == block_has_price(b)
             has_product_words == BlockWords(b) \cap SegmenterWords # {}
             has_query_keyword ==
                 \E i \in 1..Len(query_keywords) : InBlock(query_keywords[i], b)
             has_product_shape == looks_like_product_block(b, query_keywords)
         IN \/ has_price /\ (b.len >= 180 \/ has_product_words \/ has_query_keyword)
            \/ has_product_shape

\* split_markdown_to_product_blocks over the spans of the page, in order
split_markdown_to_product_blocks(doc, query_keywords) ==
    LET keep(b) == KeepSpan(b, query_keywords) IN SelectSeq(doc, keep)

\* len("\n\n---\n\n")
SeparatorLen == 7

\* max_chars of the call dynamic_chunk(blocks, max_chars=6000)
MaxChars == 6000

\* dynamic_chunk's loop from block i on; chunks, current_chunk and current_len
\* are the loop's variables
RECURSIVE ChunkLoop(_, _, _, _, _)
ChunkLoop(blocks, i, chunks, current_chunk, current_len) ==
    IF i > Len(blocks)
    THEN IF current_chunk # <<>> THEN Append(chunks, current_chunk) ELSE chunks
    ELSE LET block == blocks[i] IN
         IF ~looks_like_product_block(block, <<>>)
         THEN ChunkLoop(blocks, i + 1, chunks, current_chunk, current_len)
         ELSE IF current_len + block.len + SeparatorLen > MaxChars
         THEN ChunkLoop(blocks, i + 1, Append(chunks, current_chunk), <<block>>, block.len)
         ELSE ChunkLoop(blocks, i + 1, chunks, Append(current_chunk, block),
                        current_len + block.len + SeparatorLen)

dynamic_chunk(blocks) == ChunkLoop(blocks, 1, <<>>, <<>>, 0)

(***************************************************************************)
(* The deterministic field extractor.  A product is                        *)
(* [title, price, src]: title and price are the dict's entries, src is     *)
(* the position (block or batch) the candidate came from, kept to state    *)
(* the ordering properties; no code reads it.                              *)
(***************************************************************************)
product_indicators ==
    {"pro", "plus", "max", "mini", "air", "ultra", "premium", "standard", "gb", "tb",
     "inch", "core", "gen", "edition", "model", "series", "laptop", "phone", "tablet",
     "watch", "speaker", "camera", "wireless", "bluetooth", "smart", "digital",
     "portable"}

\* the entries of bad_indicators without whitespace (the others span tokens)
bad_indicators ==
    {"select", "department", "category", "filter", "sort", "results", "account",
     "cart", "checkout", "skip", "more"}

\* the lower bound of "if price_val > 10" and of "10 <= p"
PriceFloor == 10

\* the upper bound of "p <= 10000000"
PriceCeiling == 10000000

\* prices: the parsed matches above PriceFloor, in match order
RECURSIVE CollectPrices(_)
CollectPrices(tokens) ==
    IF tokens = <<>> THEN <<>>
    ELSE LET m == Head(tokens) IN
         IF m.digits # None /\ m.digits[1] > PriceFloor
         THEN <<m.digits[1]>> \o CollectPrices(Tail(tokens))
         ELSE CollectPrices(Tail(tokens))

\* "if 25 <= len(candidate) <= 100: score += 3"
LengthBonus(n) == IF 25 <= n /\ n <= 100 THEN 3 ELSE 0

\* the score of one title candidate
TitleScore(candidate, keywords) ==
    LET keyword_bonus ==
            IF keywords # <<>>
            THEN 3 * Cardinality({i \in 1..Len(keywords) : InTitle(keywords[i], candidate)})
            ELSE 1
        indicator_bonus == Cardinality({x \in product_indicators : InTitle(x, candidate)})
        penalty == 3 * Cardinality({x \in bad_indicators : InTitle(x, candidate)})
    IN LengthBonus(TitleLen(candidate)) + keyword_bonus + indicator_bonus - penalty
       - (IF WordCount(candidate) < 5 THEN 1 ELSE 0)

\* candidate[:100], for a candidate of whole tokens
RECURSIVE Truncate100(_)
Truncate100(t) ==
    IF TitleLen(t) <= 100 THEN t ELSE Truncate100(SubSeq(t, 1, Len(t) - 1))

\* the loop without its "if len(candidate) < 25: continue"
RECURSIVE TitleLoop_NoMinLength(_, _, _, _, _, _, _)
TitleLoop_NoMinLength(cands, lens, words, scores, i, title, best_score) ==
    IF i > Len(cands) THEN title
    ELSE IF words[i] < 3
    THEN TitleLoop_NoMinLength(cands, lens, words, scores, i + 1, title, best_score)
    ELSE IF scores[i] > best_score /\ scores[i] > 2
    THEN TitleLoop_NoMinLength(cands, lens, words, scores, i + 1,
                               Truncate100(cands[i]), scores[i])
    ELSE TitleLoop_NoMinLength(cands, lens, words, scores, i + 1, title, best_score)

\* the title loop from candidate i on; title and best_score are its
\* variables, lens, words and scores hold len(candidate), len(words) and
\* score of every candidate
RECURSIVE TitleLoop(_, _, _, _, _, _, _)
TitleLoop(cands, lens, words, scores, i, title, best_score) ==
    IF i > Len(cands) THEN title
    ELSE IF lens[i] < 25 \/ words[i] < 3
    THEN TitleLoop(cands, lens, words, scores, i + 1, title, best_score)
    ELSE IF scores[i] > best_score /\ scores[i] > 2
    THEN TitleLoop(cands, lens, words, scores, i + 1, Truncate100(cands[i]), scores[i])
    ELSE TitleLoop(cands, lens, words, scores, i + 1, title, best_score)

\* title after the loop over title_patterns, None as <<>>; the three arrays
\* are built as sequences, each entry computed once
BestTitle(cands, keywords) ==
    TitleLoop(cands,
              [i \in 1..Len(cands) |-> TitleLen(cands[i])] \o <<>>,
              [i \in 1..Len(cands) |-> WordCount(cands[i])] \o <<>>,
              [i \in 1..Len(cands) |-> TitleScore(cands[i], keywords)] \o <<>>,
              1, <<>>, 0)

\* the returns and the raise of extract_product_from_block, in the order of
\* the code: skip_patterns, "if not prices", max(), "if not title"
ProductOf(skip, prices, in_range, title) ==
    IF skip THEN [st |-> "none", title |-> <<>>, price |-> None]
    ELSE IF prices = <<>> THEN [st |-> "none", title |-> <<>>, price |-> None]
    ELSE IF in_range = {} THEN [st |-> "raise", title |-> <<>>, price |-> None]
    ELSE IF title = <<>> THEN [st |-> "none", title |-> <<>>, price |-> None]
    ELSE [st |-> "ok", title |-> title, price |-> Some(Max(in_range))]

\* the values of prices that "10 <= p <= 10000000" keeps
InRange(prices) == {prices[i] : i \in 1..Len(prices)} \cap PriceFloor..PriceCeiling

\* extract_product_from_block: st is "none" (returns None), "raise" (max() of
\* an empty sequence raises ValueError) or "ok" (returns the product)
extract_product_from_block(b, keywords) ==
    ProductOf(b.skip, CollectPrices(b.tokens), InRange(CollectPrices(b.tokens)),
              BestTitle(b.titles, keywords))

\* the currency sign test of the loop: the sign is in the block
HasRupee(b) == \E i \in 1..Len(b.tokens) : b.tokens[i].cur = "rupee"

\* the default max_price of extract_products_from_markdown
FallbackMaxPrice == 99999

\* the loop without its "min_price <= product.get('price', 0) <= max_price"
RECURSIVE ExtractLoop_NoRange(_, _, _, _)
ExtractLoop_NoRange(blocks, found, i, products) ==
    IF i > Len(blocks) THEN [st |-> "ok", val |-> products]
    ELSE IF blocks[i].len < 50 \/ ~HasRupee(blocks[i])
    THEN ExtractLoop_NoRange(blocks, found, i + 1, products)
    ELSE IF found[i].st = "raise" THEN [st |-> "raise", val |-> <<>>]
    ELSE IF found[i].st = "ok"
    THEN ExtractLoop_NoRange(blocks, found, i + 1,
                             Append(products,
                                    [title |-> found[i].title, price |-> found[i].price,
                                     src |-> i]))
    ELSE ExtractLoop_NoRange(blocks, found, i + 1, products)

\* the first loop of extract_products_from_markdown from block i on: the
\* products list, or "raise" when the field extractor raises; found[i] is
\* extract_product_from_block(blocks[i], keywords)
RECURSIVE ExtractLoop(_, _, _, _)
ExtractLoop(blocks, found, i, products) ==
    IF i > Len(blocks) THEN [st |-> "ok", val |-> products]
    ELSE IF blocks[i].len < 50 \/ ~HasRupee(blocks[i])
    THEN ExtractLoop(blocks, found, i + 1, products)
    ELSE IF found[i].st = "raise" THEN [st |-> "raise", val |-> <<>>]
    ELSE IF found[i].st = "ok" /\ 0 <= found[i].price[1]
            /\ found[i].price[1] <= FallbackMaxPrice
    THEN ExtractLoop(blocks, found, i + 1,
                     Append(products,
                            [title |-> found[i].title, price |-> found[i].price, src |-> i]))
    ELSE ExtractLoop(blocks, found, i + 1, products)

\* the second loop: unique_products, first occurrence of each (title, price)
RECURSIVE UniqueLoop(_, _, _)
UniqueLoop(products, seen, unique_products) ==
    IF products = <<>> THEN unique_products
    ELSE LET product == Head(products)
             key == <<product.title, product.price>>
         IN IF key \notin seen
            THEN UniqueLoop(Tail(products), seen \cup {key}, Append(unique_products, product))
            ELSE UniqueLoop(Tail(products), seen, unique_products)

\* unique_products of the products the first loop left, the raise passed on
Deduplicated(r) ==
    IF r.st = "raise" THEN r ELSE [st |-> "ok", val |-> UniqueLoop(r.val, {}, <<>>)]

\* extract_products_from_markdown("\n\n".join(blocks), keywords): the blocks
\* hold no blank line, so re.split gives the blocks back; the field
\* extractor's results are built as a sequence, one call per block
extract_products_from_markdown(blocks, keywords) ==
    Deduplicated(ExtractLoop(blocks,
                             [i \in 1..Len(blocks) |->
                                 extract_product_from_block(blocks[i], keywords)] \o <<>>,
                             1, <<>>))

(***************************************************************************)
(* The batch model extractor.  A response of the generation service is     *)
(*   transport  "ok", or how the POST failed: "raise" (connection error),  *)
(*              "timeout" (the 120 s timeout), "status" (raise_for_status) *)
(*   lead       text before the JSON: "none", "plain" (no bracket or       *)
(*              brace in it) or "bracket"                                  *)
(*   body       "none", "array", "object" or "malformed"                   *)
(*   trail      non-blank text follows the JSON                            *)
(*   items      the elements of the array                                  *)
(* An element is [dict, title, price]: dict is FALSE for an element that   *)
(* is no JSON object; title is the tokens of the title, <<>> when the key  *)
(* is missing or empty; price is [t, v] with t the JSON type ("num",       *)
(* "str", "null") and v the number, or the number the digits of the        *)
(* string form.                                                            *)
(***************************************************************************)
Num(n) == [t |-> "num", v |-> Some(n)]
Str(n) == [t |-> "str", v |-> Some(n)]
JsonNull == [t |-> "null", v |-> None]

Obj(title, price) == [dict |-> TRUE, title |-> title, price |-> price]

O_Good == Obj(T_Full, Num(12999))
O_Up == Obj(T_FullUp, Num(12999))
O_Short == Obj(T_Short, Num(12999))
O_Str == Obj(T_Full, Str(12999))
O_Low == Obj(T_Other, Num(500))
O_NoTitle == Obj(<<>>, JsonNull)
O_NotDict == [dict |-> FALSE, title |-> <<>>, price |-> JsonNull]

Text(lead, body, trail, items) ==
    [transport |-> "ok", lead |-> lead, body |-> body, trail |-> trail, items |-> items]

Failure(how) ==
    [transport |-> how, lead |-> "none", body |-> "none", trail |-> FALSE, items |-> <<>>]

R_Prose == Text("plain", "none", FALSE, <<>>)
R_Malformed == Text("none", "malformed", FALSE, <<>>)

\* "Here are the products: [ ... ]" and "[ ... ] Let me know if you need more."
R_Leading == Text("plain", "array", FALSE, <<O_Good>>)
R_Trailing == Text("none", "array", TRUE, <<O_Good>>)

ItemLists ==
    {<<>>, <<O_Good>>, <<O_Up>>, <<O_Short>>, <<O_Str>>, <<O_Low, O_NoTitle>>,
     <<O_Good, O_Good>>, <<O_NotDict>>}

Responses ==
    {Failure("raise"), Failure("timeout"), Failure("status"), R_Prose, R_Malformed,
     R_Leading, R_Trailing}
    \cup {Text("none", "array", FALSE, items) : items \in ItemLists}

\* ask_ollama: the response text, "" when the request raised
ask_ollama(r) == IF r.transport = "ok" THEN r ELSE Text("none", "none", FALSE, <<>>)

\* the price loop's body: int(price) for a number; for a string the pattern
\* r'[^\\d]' deletes every character but the backslash and the letter d, so
\* int() raises ValueError on what is left; None otherwise
CoercePrice(price) ==
    IF price.t = "num" THEN price.v
    ELSE IF price.t = "str" THEN None
    ELSE None

\* any(k.lower() in title.lower() for k in keywords)
AnyKeyword(keywords, title) == \E i \in 1..Len(keywords) : InTitle(LowerWord(keywords[i]), title)

\* the filtered list of extract_with_llm; src is the batch
RECURSIVE FilterParsed(_, _, _)
FilterParsed(data, keywords, src) ==
    IF data = <<>> THEN <<>>
    ELSE LET p == Head(data)
             rest == FilterParsed(Tail(data), keywords, src)
         IN IF p.title # <<>> /\ (keywords = <<>> \/ AnyKeyword(keywords, p.title))
            THEN <<[title |-> p.title, price |-> CoercePrice(p.price), src |-> src]>> \o rest
            ELSE rest

Raised(exc) == [st |-> exc, val |-> <<>>]

\* the bound of joined[:4000]
PromptLimit == 4000

\* the blocks of a batch as the prompt shows them: shown[k] is the number of
\* characters of block k within joined[:4000], joined being the blocks with
\* the separator between neighbours
PromptBlocks(markdown) ==
    [k \in 1..Len(markdown) |->
        LET offset == SumSeq([j \in 1..(k - 1) |-> markdown[j].len + SeparatorLen])
            left == PromptLimit - offset
        IN IF left <= 0 THEN 0
           ELSE IF left < markdown[k].len THEN left
           ELSE markdown[k].len]

\* extract_with_llm on the response r of batch src: the list it returns, or
\* the exception it raises
extract_with_llm(r, keywords, src) ==
    LET response == ask_ollama(r)
        blank == response.lead = "none" /\ response.body = "none" /\ ~response.trail
    IN IF blank THEN Raised("ValueError")
       ELSE IF response.lead = "bracket" THEN Raised("ValueError")
       ELSE IF response.body = "none" THEN Raised("ValueError")
       ELSE IF response.body = "malformed" \/ response.trail THEN Raised("ValueError")
       ELSE IF response.body # "array" THEN Raised("ValueError")
       ELSE IF \E i \in 1..Len(response.items) : ~response.items[i].dict
       THEN Raised("AttributeError")
       ELSE [st |-> "ok", val |-> FilterParsed(response.items, keywords, src)]

(***************************************************************************)
(* The post-filter and the price gates.                                    *)
(***************************************************************************)
product_type_words ==
    {"laptop", "phone", "tablet", "watch", "camera", "speaker", "headphone", "machine",
     "cleaner", "washer", "dryer", "refrigerator", "tv", "monitor", "mouse", "keyboard",
     "router", "modem", "charger", "cable", "adapter", "bag", "case", "cover", "stand",
     "holder", "mount", "kit", "set", "apple", "samsung", "lg", "dell", "hp", "lenovo",
     "asus", "sony", "pro", "plus", "max", "ultra", "premium", "edition", "series",
     "model", "gb", "tb", "inch", "core", "gen", "5g", "4g", "wireless", "bluetooth"}

\* invalid_title_patterns, for the entries that tokens of letters can match
InvalidTitle(title) ==
    LET l == LowerTitle(title)
    IN \/ Len(l) >= 2 /\ l[1] = "skip" /\ l[2] = "to"
       \/ l \in {<<"more", "results">>, <<"more", "result">>, <<"need", "help">>,
                 <<"customer", "reviews">>, <<"customer", "review">>, <<"show", "more">>,
                 <<"see", "all">>, <<"view", "all">>, <<"sign", "in">>, <<"cart">>,
                 <<"checkout">>}

\* "if price < 50"
FilterPriceFloor == 50

\* the loop's body with the field extractor's lower bound in the price test
ValidProduct_ExtractorFloor(product) ==
    LET title == product.title
        price == product.price
    IN /\ title # <<>> /\ TitleLen(title) >= 25
       /\ WordCount(title) >= 3
       /\ ~InvalidTitle(title)
       /\ price # None => ~(price[1] < PriceFloor \/ price[1] > PriceCeiling)
       /\ (\E w \in product_type_words : InTitle(w, title)) \/ TitleLen(title) >= 40

\* the body of filter_valid_products' loop: is the product appended
ValidProduct(product) ==
    LET title == product.title
        price == product.price
    IN /\ title # <<>> /\ TitleLen(title) >= 25
       /\ WordCount(title) >= 3
       /\ ~InvalidTitle(title)
       /\ price # None => ~(price[1] < FilterPriceFloor \/ price[1] > PriceCeiling)
       /\ (\E w \in product_type_words : InTitle(w, title)) \/ TitleLen(title) >= 40

\* the loop with valid_products.insert(0, product) for the append
filter_valid_products_Reversed(products) ==
    LET valid_products == SelectSeq(products, ValidProduct)
    IN [i \in 1..Len(valid_products) |-> valid_products[Len(valid_products) + 1 - i]]

filter_valid_products(products) == SelectSeq(products, ValidProduct)

\* the test with "price is None" alone in its first branch
PriceGate_NullAlways(price, min_price, max_price) ==
    \/ price = None
    \/ price # None /\ min_price <= price[1] /\ price[1] <= max_price

\* the price test shared by scrape_single_page and url_scraper
PriceGate(price, min_price, max_price) ==
    \/ price = None /\ min_price <= 0
    \/ price # None /\ min_price <= price[1] /\ price[1] <= max_price

\* the loop of scrape_single_page over detailed_products
PageGate(detailed_products, q) ==
    LET keep(product) ==
            /\ product.title # <<>>
            /\ \E i \in 1..Len(q.keywords) : InTitle(q.keywords[i], product.title)
            /\ PriceGate(product.price, q.min_price, q.max_price)
    IN SelectSeq(detailed_products, keep)

\* the loop of url_scraper over detailed_products
UrlGate(detailed_products, q) ==
    LET keep(product) ==
            /\ product.title # <<>>
            /\ PriceGate(product.price, q.min_price, q.max_price)
    IN SelectSeq(detailed_products, keep)

(***************************************************************************)
(* The run.  One run of an entry point: run_crawl4ai_scraper scrapes its   *)
(* paginated URLs as concurrent scrape_single_page tasks, url_scraper      *)
(* scrapes one URL.  The suspension points are the crawler's arun and the  *)
(* generation requests of the batches; everything between two of them is   *)
(* one step.  The crawler's own start-up and shutdown are not modelled.    *)
(***************************************************************************)
(***************************************************************************)
(* The noise filter.  The page's markdown is the sequence of its lines; a  *)
(* line is [kind, id, lead, trail]: kind is "text", "noise" (a line one of *)
(* noise_line_patterns matches) or "blank" (empty or white space only),    *)
(* lead and trail tell of white space before and after its text (lead of a *)
(* blank line: the line is white space, not empty).  A string is a         *)
(* sequence of lines' texts and newline characters.                        *)
(***************************************************************************)
Line(kind, id, lead, trail) == [kind |-> kind, id |-> id, lead |-> lead, trail |-> trail]

L_Title == Line("text", 1, FALSE, FALSE)

\* an indented line with trailing white space
L_Price == Line("text", 2, TRUE, TRUE)

\* "Skip to main content"
L_SkipTo == Line("noise", 0, FALSE, FALSE)

L_Empty == Line("blank", 0, FALSE, FALSE)

\* a line of spaces
L_Spaces == Line("blank", 0, TRUE, FALSE)

MarkdownLines == {L_Title, L_Price, L_SkipTo, L_Empty, L_Spaces}

MaxLines == 5

Markdowns == UNION {[1..n -> MarkdownLines] : n \in 0..MaxLines}

\* the newline character
NL == Line("newline", 0, FALSE, FALSE)

\* any(re.search(pattern, line, re.IGNORECASE) for pattern in noise_line_patterns)
IsNoise(line) == line.kind = "noise"

\* line.rstrip()
rstrip(line) == IF line.kind = "blank" THEN L_Empty ELSE [line EXCEPT !.trail = FALSE]

\* the loop over markdown.splitlines(): cleaned_lines
RECURSIVE CleanedLines(_)
CleanedLines(lines) ==
    IF lines = <<>> THEN <<>>
    ELSE IF IsNoise(Head(lines)) THEN CleanedLines(Tail(lines))
    ELSE <<rstrip(Head(lines))>> \o CleanedLines(Tail(lines))

\* "\n".join(cleaned_lines): an empty line adds no character
RECURSIVE Join(_)
Join(lines) ==
    IF lines = <<>> THEN <<>>
    ELSE (IF Head(lines) = L_Empty THEN <<>> ELSE <<Head(lines)>>)
         \o (IF Len(lines) > 1 THEN <<NL>> \o Join(Tail(lines)) ELSE <<>>)

\* the number of newline characters the string starts with
LeadingNewlines(str) ==
    Max({k \in 0..Len(str) : \A j \in 1..k : str[j] = NL})

\* re.sub(r'\n{3,}', '\n', cleaned): no blank line is left between two lines
RECURSIVE Sub_NoBlankLine(_)
Sub_NoBlankLine(str) ==
    IF str = <<>> THEN <<>>
    ELSE IF Head(str) # NL THEN <<Head(str)>> \o Sub_NoBlankLine(Tail(str))
    ELSE LET n == LeadingNewlines(str)
         IN (IF n >= 3 THEN <<NL>> ELSE [j \in 1..n |-> NL])
            \o Sub_NoBlankLine(SubSeq(str, n + 1, Len(str)))

\* re.sub(r'\n{3,}', '\n\n', cleaned)
RECURSIVE Sub(_)
Sub(str) ==
    IF str = <<>> THEN <<>>
    ELSE IF Head(str) # NL THEN <<Head(str)>> \o Sub(Tail(str))
    ELSE LET n == LeadingNewlines(str)
         IN (IF n >= 3 THEN <<NL, NL>> ELSE [j \in 1..n |-> NL])
            \o Sub(SubSeq(str, n + 1, Len(str)))

\* cleaned.strip(): the newlines at both ends go, and the white space before
\* the first line's text (rstrip has taken the white space after the last)
strip(str) ==
    LET texts == {j \in 1..Len(str) : str[j] # NL}
    IN IF texts = {} THEN <<>>
       ELSE LET first == CHOOSE j \in texts : \A k \in texts : j <= k
                inner == SubSeq(str, first, Max(texts))
            IN <<[inner[1] EXCEPT !.lead = FALSE]>> \o Tail(inner)

\* cleaned_markdown(markdown), markdown given by its lines
cleaned_markdown(lines) == strip(Sub(Join(CleanedLines(lines))))

VARIABLES
    entry,         \* the entry point of the run
    query,         \* keywords, min_price, max_price of the run
    site,          \* per page: the document behind the page's URL, in spans
    fetch,         \* per page: "pending", "ok", "failed" (not success) or "raise"
    pc,            \* per page: "fetch", "gather" (awaiting the batches) or "done"
    blocks,        \* per page: product_blocks
    batch,         \* per page: the extract_with_llm tasks, in chunk order
    order,         \* per page: the batches in the order their requests completed
    orch,          \* per page: the course of extract_detailed_product_info
    out,           \* per page: the products the page returned
    runPc,         \* "running" or "done"
    all_products,  \* the list the entry point returned
    markdown,      \* the lines of result.markdown given to cleaned_markdown
    clean_md       \* None, or what cleaned_markdown returned

vars ==
    <<entry, query, site, fetch, pc, blocks, batch, order, orch, out, runPc, all_products,
      markdown, clean_md>>

\* pages=2 of the call generate_paginated_urls(source_url, site_key, pages=2)
NumPages == 2

Query(keywords, min_price, max_price) ==
    [keywords |-> keywords, min_price |-> min_price, max_price |-> max_price]

\* structured queries: keywords is structured['query'].lower().split()
PageQueries == {Query(<<"widget">>, 0, 999999), Query(<<"widget">>, 600, 20000)}

\* url_scraper passes no keywords
UrlQueries == {Query(<<>>, 0, 999999), Query(<<>>, 600, 20000)}

IdleOrch == [state |-> "idle", outcome |-> "none", llm |-> <<>>, ret |-> <<>>]

NoResponse == Failure("pending")

Task(chunk) ==
    [st |-> "inflight", chunk |-> chunk, resp |-> NoResponse,
     res |-> [st |-> "pending", val |-> <<>>]]

Pages == DOMAIN pc

\* the state at the call of the entry point, over n pages with the documents d
Start(n, d) ==
    /\ site = d
    /\ fetch = [p \in 1..n |-> "pending"]
    /\ pc = [p \in 1..n |-> "fetch"]
    /\ blocks = [p \in 1..n |-> <<>>]
    /\ batch = [p \in 1..n |-> <<>>]
    /\ order = [p \in 1..n |-> <<>>]
    /\ orch = [p \in 1..n |-> IdleOrch]
    /\ out = [p \in 1..n |-> <<>>]
    /\ runPc = "running"
    /\ all_products = <<>>
    /\ markdown = <<>>
    /\ clean_md = None

\* a run over one URL: url_scraper, or run_crawl4ai_scraper for a site whose
\* generate_paginated_urls branch breaks after the base URL
Init ==
    /\ entry \in {"run_crawl4ai_scraper", "url_scraper"}
    /\ query \in (IF entry = "url_scraper" THEN UrlQueries ELSE PageQueries)
    /\ \E doc \in Docs : Start(1, <<doc>>)

\* the documents of the paginated runs
PagedDocs == {<<>>, <<S_Nav>>, <<S_Widget>>, <<S_Over>>, <<S_WidgetUp, S_Cheap>>}

\* the documents of the runs over the blocks of the spec's scenarios
BlockDocs ==
    {<<S_Heading>>, <<S_HeadingLong>>, <<S_SignIn>>, <<S_Sorted>>, <<S_SignIn, S_Widget>>,
     <<S_Heading, S_WidgetUp>>, <<S_Sorted, S_HeadingLong>>, <<S_Huge>>,
     <<S_WidgetUp, S_Huge>>, <<S_Bold>>, <<S_Widget, S_Bold>>,
     <<S_Ten>>, <<S_ShortTitle>>, <<S_Budget>>, <<S_Lakh>>, <<S_WidgetUp, S_Lakh>>}

\* a structured query as query_llama returns it from the model's JSON, whose
\* min_price and max_price no code compares
InvertedQueries == {Query(<<"widget">>, 20000, 600)}

\* a structured query whose 'query' is blank but not empty (" "): it passes
\* "if not query" and its keywords, query.lower().split(), are []
BlankQueries == {Query(<<>>, 0, 999999)}

\* a run over one URL whose page is one of BlockDocs
InitBlocks ==
    /\ entry \in {"run_crawl4ai_scraper", "url_scraper"}
    /\ query \in (IF entry = "url_scraper" THEN UrlQueries
                  ELSE PageQueries \cup InvertedQueries \cup BlankQueries)
    /\ \E doc \in BlockDocs : Start(1, <<doc>>)

\* a run of run_crawl4ai_scraper over its NumPages paginated URLs
InitPages ==
    /\ entry = "run_crawl4ai_scraper"
    /\ query \in PageQueries
    /\ \E d \in [1..NumPages -> PagedDocs] : Start(NumPages, d)

\* gather without return_exceptions: the first exception leaves gather, and
\* the try block of the orchestrator with it
GatherResults_Propagate(tasks, completed) ==
    IF \E i \in 1..Len(tasks) : tasks[i].res.st # "ok"
    THEN <<[st |-> "ValueError", val |-> <<>>]>>
    ELSE [i \in 1..Len(tasks) |-> tasks[i].res]

\* results taken as the requests complete (asyncio.as_completed)
GatherResults_AsCompleted(tasks, completed) ==
    [k \in 1..Len(completed) |-> tasks[completed[k]].res]

\* asyncio.gather(*tasks, return_exceptions=True): the results in task order
GatherResults(tasks, completed) == [i \in 1..Len(tasks) |-> tasks[i].res]

\* the loop without its isinstance(result, Exception) test: extend() of an
\* exception raises TypeError, the except clause drops all_llm_products
CollectResults_NoCheck(chunk_results) ==
    IF \E i \in 1..Len(chunk_results) : chunk_results[i].st # "ok"
    THEN <<>>
    ELSE Concat([i \in 1..Len(chunk_results) |-> chunk_results[i].val])

\* the loop over chunk_results: all_llm_products
CollectResults(chunk_results) ==
    Concat([i \in 1..Len(chunk_results) |->
               IF chunk_results[i].st = "ok" THEN chunk_results[i].val ELSE <<>>])

\* the end of extract_detailed_product_info: the model's candidates if there
\* are any, else the regex products or their exception
Decide(all_llm_products, regex_products) ==
    IF all_llm_products # <<>>
    THEN [state |-> "ModelAttempt", outcome |-> "model",
          llm |-> all_llm_products, ret |-> all_llm_products]
    ELSE IF regex_products.st = "raise"
    THEN [state |-> "DeterministicFallback", outcome |-> "raised",
          llm |-> <<>>, ret |-> <<>>]
    ELSE [state |-> "DeterministicFallback", outcome |-> "fallback",
          llm |-> <<>>, ret |-> regex_products.val]

\* extract_detailed_product_info from the gathered results on
extract_detailed_product_info(product_blocks, keywords, chunk_results) ==
    Decide(CollectResults(chunk_results),
           extract_products_from_markdown(product_blocks, keywords))

\* what the page returns once extract_detailed_product_info is over: an
\* exception is caught by the page's except clause, which returns []
PageProducts(o, e, q) ==
    IF o.outcome = "raised" THEN <<>>
    ELSE IF e = "url_scraper" THEN UrlGate(o.ret, q)
    ELSE filter_valid_products(PageGate(o.ret, q))

\* arun returned an unsuccessful result, or raised
FetchFailed(p) ==
    /\ runPc = "running" /\ pc[p] = "fetch"
    /\ \E how \in {"failed", "raise"} : fetch' = [fetch EXCEPT ![p] = how]
    /\ pc' = [pc EXCEPT ![p] = "done"]
    /\ out' = [out EXCEPT ![p] = <<>>]
    /\ UNCHANGED <<markdown, clean_md, entry, query, site, blocks, batch, order, orch, runPc, all_products>>

\* the page from the segmented blocks on: no blocks ends the page, no chunk
\* ends the model attempt at once (gather of no task does not suspend), else
\* one task per chunk is awaited; o is the orchestrator's course without a task
Dispatch(p, product_blocks, chunks, o) ==
    /\ blocks' = [blocks EXCEPT ![p] = product_blocks]
    /\ IF entry = "run_crawl4ai_scraper" /\ product_blocks = <<>>
       THEN /\ pc' = [pc EXCEPT ![p] = "done"]
            /\ out' = [out EXCEPT ![p] = <<>>]
            /\ UNCHANGED <<batch, orch>>
       ELSE IF chunks = <<>>
       THEN /\ pc' = [pc EXCEPT ![p] = "done"]
            /\ orch' = [orch EXCEPT ![p] = o]
            /\ out' = [out EXCEPT ![p] = PageProducts(o, entry, query)]
            /\ UNCHANGED batch
       ELSE /\ pc' = [pc EXCEPT ![p] = "gather"]
            /\ batch' = [batch EXCEPT ![p] = [i \in 1..Len(chunks) |-> Task(chunks[i])]]
            /\ orch' = [orch EXCEPT ![p] = [IdleOrch EXCEPT !.state = "ModelAttempt"]]
            /\ UNCHANGED out

\* the blocks of the page go to chunking and to the orchestrator
Segmented(p, product_blocks) ==
    Dispatch(p, product_blocks, dynamic_chunk(product_blocks),
             extract_detailed_product_info(product_blocks, query.keywords, <<>>))

\* arun returned the page: segment, chunk, queue one task per chunk and
\* await them
Fetched(p) ==
    /\ runPc = "running" /\ pc[p] = "fetch"
    /\ fetch' = [fetch EXCEPT ![p] = "ok"]
    /\ Segmented(p, split_markdown_to_product_blocks(site[p], query.keywords))
    /\ UNCHANGED <<markdown, clean_md, entry, query, site, order, runPc, all_products>>

\* the generation request of batch i of page p is over: extract_with_llm
\* runs to its return or its raise
Complete(p, i) ==
    /\ runPc = "running" /\ pc[p] = "gather"
    /\ i \in 1..Len(batch[p]) /\ batch[p][i].st = "inflight"
    /\ \E r \in Responses :
         batch' = [batch EXCEPT ![p][i] =
                      [st |-> "done", chunk |-> @.chunk, resp |-> r,
                       res |-> extract_with_llm(r, query.keywords, i)]]
    /\ order' = [order EXCEPT ![p] = Append(@, i)]
    /\ UNCHANGED <<markdown, clean_md, entry, query, site, fetch, pc, blocks, orch, out, runPc, all_products>>

\* the page ends with the orchestrator's course o
Finish(p, o) ==
    /\ orch' = [orch EXCEPT ![p] = o]
    /\ out' = [out EXCEPT ![p] = PageProducts(o, entry, query)]
    /\ pc' = [pc EXCEPT ![p] = "done"]

\* the tasks awaited with asyncio.wait(..., return_when=FIRST_COMPLETED): the
\* orchestrator goes on when the first task is done
Gathered_FirstCompleted(p) ==
    /\ runPc = "running" /\ pc[p] = "gather"
    /\ \E i \in 1..Len(batch[p]) : batch[p][i].st = "done"
    /\ Finish(p, extract_detailed_product_info(blocks[p], query.keywords,
                                                GatherResults(batch[p], order[p])))
    /\ UNCHANGED <<markdown, clean_md, entry, query, site, fetch, blocks, batch, order, runPc, all_products>>

\* every task is done: gather returns, the orchestrator and the page finish
Gathered(p) ==
    /\ runPc = "running" /\ pc[p] = "gather"
    /\ \A i \in 1..Len(batch[p]) : batch[p][i].st = "done"
    /\ Finish(p, extract_detailed_product_info(blocks[p], query.keywords,
                                                GatherResults(batch[p], order[p])))
    /\ UNCHANGED <<markdown, clean_md, entry, query, site, fetch, blocks, batch, order, runPc, all_products>>

\* the gather over the pages without return_exceptions and a page that lets
\* its exception out: one failing page empties the run's result
Return_AbortOnFailure ==
    /\ runPc = "running"
    /\ \A p \in DOMAIN pc : pc[p] = "done"
    /\ all_products' =
           IF \E p \in DOMAIN pc : fetch[p] = "raise" \/ orch[p].outcome = "raised"
           THEN <<>> ELSE Concat(out)
    /\ runPc' = "done"
    /\ UNCHANGED <<markdown, clean_md, entry, query, site, fetch, pc, blocks, batch, order, orch, out>>

\* the gather over the pages returned (url_scraper: the page is over): the
\* entry point returns the pages' products, in page order
Return ==
    /\ runPc = "running"
    /\ \A p \in Pages : pc[p] = "done"
    /\ all_products' = Concat(out)
    /\ runPc' = "done"
    /\ UNCHANGED <<markdown, clean_md, entry, query, site, fetch, pc, blocks, batch, order, orch, out>>

Next ==
    \/ \E p \in Pages : FetchFailed(p)
    \/ \E p \in Pages : Fetched(p)
    \/ \E p \in Pages : \E i \in 1..Len(batch[p]) : Complete(p, i)
    \/ \E p \in Pages : Gathered(p)
    \/ Return

Spec == Init /\ [][Next]_vars

SpecPages == InitPages /\ [][Next]_vars

SpecBlocks == InitBlocks /\ [][Next]_vars

\* the page's markdown is at hand, no page is being scraped yet
InitClean ==
    /\ entry = "run_crawl4ai_scraper"
    /\ query \in PageQueries
    /\ site = <<>> /\ fetch = <<>> /\ pc = <<>> /\ blocks = <<>> /\ batch = <<>>
    /\ order = <<>> /\ orch = <<>> /\ out = <<>>
    /\ runPc = "running"
    /\ all_products = <<>>
    /\ markdown \in Markdowns
    /\ clean_md = None

\* "clean_md = cleaned_markdown(result.markdown)"
Clean ==
    /\ clean_md = None
    /\ clean_md' = Some(cleaned_markdown(markdown))
    /\ UNCHANGED <<markdown, entry, query, site, fetch, pc, blocks, batch, order, orch, out,
                   runPc, all_products>>

\* the noise filter on its own, over the markdowns of up to MaxLines lines
SpecClean == InitClean /\ [][Clean]_vars

(***************************************************************************)
(* Properties.                                                             *)
(***************************************************************************)
Batches(p) == DOMAIN batch[p]

\* batch i of page p returned a list
Succeeded(p, i) == batch[p][i].res.st = "ok"

\* the generation requests of page p that are under way
InFlight(p) == Cardinality({i \in Batches(p) : batch[p][i].st = "inflight"})

\* the model attempt of page p is over
Attempted(p) == pc[p] = "done" /\ batch[p] # <<>>

\* the number of candidates the batches before i returned
Before(p, i) ==
    SumSeq([j \in 1..(i - 1) |-> IF Succeeded(p, j) THEN Len(batch[p][j].res.val) ELSE 0])

\* the request failed, or its text holds no JSON array
FailedResponse(r) == r.transport # "ok" \/ r.body # "array"

RECURSIVE IsSubSeq(_, _)
IsSubSeq(s, t) ==
    IF s = <<>> THEN TRUE
    ELSE IF t = <<>> THEN FALSE
    ELSE IF Head(s) = Head(t) THEN IsSubSeq(Tail(s), Tail(t))
    ELSE IsSubSeq(s, Tail(t))

InOrder(products) ==
    \A i, j \in 1..Len(products) : i < j => products[i].src <= products[j].src

\* C1: when no batch of the model attempt returns a list, the orchestrator
\* returns the deterministic extractor's products and does not raise
C1_FallbackGuarantee ==
    \A p \in Pages :
        (orch[p].outcome # "none" /\ \A i \in Batches(p) : ~Succeeded(p, i))
            => orch[p].outcome = "fallback"

\* C2: the candidates gathered from the model attempt are the candidates of
\* the batches that succeeded, batch after batch, whatever the other batches
\* did and in whatever order the requests completed
C2_Isolation ==
    \A p \in Pages :
        Attempted(p) =>
            /\ Len(orch[p].llm) = Before(p, Len(batch[p]) + 1)
            /\ \A i \in Batches(p) :
                   Succeeded(p, i) =>
                       SubSeq(orch[p].llm, Before(p, i) + 1,
                              Before(p, i) + Len(batch[p][i].res.val)) = batch[p][i].res.val

\* a batch failed before a sibling succeeded, and the sibling's candidates
\* were gathered
C2_Witness ==
    \E p \in Pages :
        /\ Attempted(p)
        /\ \E i, j \in Batches(p) :
               /\ ~Succeeded(p, i) /\ Succeeded(p, j)
               /\ batch[p][j].res.val # <<>>
               /\ order[p][1] = i
        /\ orch[p].llm # <<>>

\* C3: the run returns the model's candidates exactly when a batch yielded
\* one, and in every other case returns the deterministic extractor's
\* products from the fallback state
C3_OrchestratorStateMachine ==
    \A p \in Pages :
        orch[p].outcome # "none" =>
            IF \E i \in Batches(p) : Succeeded(p, i) /\ batch[p][i].res.val # <<>>
            THEN orch[p].state = "ModelAttempt" /\ orch[p].outcome = "model"
            ELSE orch[p].state = "DeterministicFallback" /\ orch[p].outcome = "fallback"

\* the deduplication key of a product
DedupKey(product) == <<LowerTitle(product.title), product.price>>

\* C4: no two returned products share the (lowercase title, price) key
C4_DedupCorrectness ==
    runPc = "done" =>
        \A i, j \in 1..Len(all_products) :
            i # j => DedupKey(all_products[i]) # DedupKey(all_products[j])

\* C5: a returned product has no price and min_price <= 0, or a price within
\* [min_price, max_price]
C5_PriceGate ==
    runPc = "done" =>
        \A k \in 1..Len(all_products) :
            LET price == all_products[k].price
            IN \/ price = None /\ query.min_price <= 0
               \/ price # None /\ query.min_price <= price[1] /\ price[1] <= query.max_price

\* under a positive min_price a candidate without price was extracted next
\* to one that was returned
C5_Witness ==
    /\ runPc = "done" /\ query.min_price > 0
    /\ all_products # <<>>
    /\ \E p \in Pages : \E k \in 1..Len(orch[p].ret) : orch[p].ret[k].price = None

\* C6: every returned product has a title of at least 3 tokens
C6_TitleInvariant ==
    runPc = "done" => \A k \in 1..Len(all_products) : Len(all_products[k].title) >= 3

\* C7: the requests in flight stay under a cap that the number of batches
\* does not move.  The code holds no limiter; the cap is stated as one less
\* than the most batches a page of the model has (one per span)
C7_BoundedConcurrency == \A p \in Pages : InFlight(p) < MaxSpans

\* C8: a batch whose request failed or whose text holds no JSON array puts
\* no candidate among the gathered ones, and does not keep the model attempt
\* from returning what a sibling yielded
C8_FailedBatchContributesNothing ==
    \A p \in Pages :
        Attempted(p) =>
            /\ \A i \in Batches(p) :
                   FailedResponse(batch[p][i].resp) =>
                       /\ ~Succeeded(p, i)
                       /\ \A k \in 1..Len(orch[p].llm) : orch[p].llm[k].src # i
            /\ (\E j \in Batches(p) : Succeeded(p, j) /\ batch[p][j].res.val # <<>>)
                   => orch[p].outcome = "model" /\ orch[p].ret = orch[p].llm

\* a request that timed out and a response without JSON, next to a sibling
\* whose candidates the page returned
C8_Witness ==
    \E p \in Pages :
        /\ Attempted(p)
        /\ \E i \in Batches(p) : batch[p][i].resp.transport \in {"raise", "timeout", "status"}
                                 \/ batch[p][i].resp = R_Prose
        /\ \E j \in Batches(p) : Succeeded(p, j)
        /\ out[p] # <<>>

\* C9: the products of a page are in discovery order: batch i before batch j
\* (block i before block j in the fallback) for i < j, and segmentation, the
\* gate and the post-filter keep the order of what they keep
C9_DiscoveryOrder ==
    \A p \in Pages :
        /\ IsSubSeq(blocks[p], site[p])
        /\ pc[p] = "done" =>
               /\ InOrder(orch[p].ret)
               /\ InOrder(out[p])
               /\ IsSubSeq(out[p], orch[p].ret)

\* the second batch completed first and both batches have a product in the
\* page's result
C9_Witness ==
    \E p \in Pages :
        /\ pc[p] = "done" /\ Len(order[p]) >= 2 /\ order[p][1] > order[p][2]
        /\ \E a, b \in 1..Len(out[p]) : out[p][a].src # out[p][b].src

\* the number of products the pages before p returned
PagesBefore(p) == SumSeq([q \in 1..(p - 1) |-> Len(out[q])])

\* page p failed: its fetch failed or raised, or its extraction raised
PageFailed(p) == fetch[p] \in {"failed", "raise"} \/ orch[p].outcome = "raised"

\* C10: the run returns after every page is done; a failed page adds nothing
\* and every page's products are in the result, page after page
C10_PageIsolation ==
    /\ runPc # "done" => all_products = <<>>
    /\ runPc = "done" =>
           /\ \A p \in Pages : pc[p] = "done"
           /\ Len(all_products) = PagesBefore(Len(pc) + 1)
           /\ \A p \in Pages :
                  /\ PageFailed(p) => out[p] = <<>>
                  /\ SubSeq(all_products, PagesBefore(p) + 1, PagesBefore(p) + Len(out[p]))
                         = out[p]

\* one page raised, another page's products were returned
C10_Witness ==
    /\ runPc = "done"
    /\ \E p, q \in Pages :
           /\ fetch[p] = "raise" \/ orch[p].outcome = "raised"
           /\ out[q] # <<>>
    /\ all_products # <<>>

\* a span made of a heading of at least 3 tokens with a query keyword, one
\* "Rs."-prefixed price within the query's range and a markdown link
HeadingBlock(b, q) ==
    /\ b.heading # None /\ Len(b.heading[1]) >= 3
    /\ AnyKeyword(q.keywords, b.heading[1])
    /\ Len(b.tokens) = 1 /\ b.tokens[1].cur = "rs" /\ b.tokens[1].digits # None
    /\ q.min_price <= b.tokens[1].digits[1] /\ b.tokens[1].digits[1] <= q.max_price
    /\ b.link # None

\* C11: when a page's extraction is the deterministic one, every heading
\* block of the page yields exactly one product, with the heading as title
\* and the integer value of the price
C11_HeadingBlockExtraction ==
    \A p \in Pages :
        (pc[p] = "done" /\ fetch[p] = "ok" /\ \A i \in Batches(p) : ~Succeeded(p, i)) =>
            \A k \in 1..Len(site[p]) :
                HeadingBlock(site[p][k], query) =>
                    Cardinality({j \in 1..Len(orch[p].ret) :
                                    /\ orch[p].ret[j].title = site[p][k].heading[1]
                                    /\ orch[p].ret[j].price = site[p][k].tokens[1].digits}) = 1

\* the span is under the minimum length or matches a noise pattern
Boilerplate(b) == b.len < MinBlockLen \/ b.noise

\* C12: every block the segmenter returns, and so every block of a batch, has
\* at least the minimum length and matches no noise pattern; a page of
\* boilerplate spans alone has no block and yields no candidate
C12_SegmenterDiscardsBoilerplate ==
    \A p \in Pages :
        /\ \A k \in 1..Len(blocks[p]) : ~Boilerplate(blocks[p][k])
        /\ \A i \in Batches(p) :
               \A k \in 1..Len(batch[p][i].chunk) : ~Boilerplate(batch[p][i].chunk[k])
        /\ (fetch[p] = "ok" /\ \A k \in 1..Len(site[p]) : Boilerplate(site[p][k])) =>
               /\ blocks[p] = <<>> /\ batch[p] = <<>>
               /\ orch[p].ret = <<>> /\ out[p] = <<>>

\* the page held the sign-in span and a product span; the product span alone
\* went to a batch
C12_Witness ==
    \E p \in Pages :
        /\ pc[p] = "done" /\ S_SignIn \in {site[p][k] : k \in 1..Len(site[p])}
        /\ blocks[p] # <<>> /\ batch[p] # <<>>

\* the gate and the post-filter of the entry point e on a candidate sequence
Finalize(detailed_products, e, q) ==
    IF e = "url_scraper" THEN UrlGate(detailed_products, q)
    ELSE filter_valid_products(PageGate(detailed_products, q))

\* C13: the products of a page are the gate and post-filter of the
\* orchestrator's candidates; applying gate and post-filter to them again
\* leaves them unchanged, and they are a subsequence of the candidates in
\* the candidates' order
C13_FinalizeIdempotent ==
    \A p \in Pages :
        (pc[p] = "done" /\ orch[p].outcome \in {"model", "fallback"}) =>
            /\ out[p] = Finalize(orch[p].ret, entry, query)
            /\ Finalize(out[p], entry, query) = out[p]
            /\ IsSubSeq(out[p], orch[p].ret)

\* run_crawl4ai_scraper kept a candidate and dropped another
C13_Witness ==
    \E p \in Pages :
        /\ entry = "run_crawl4ai_scraper" /\ pc[p] = "done"
        /\ out[p] # <<>> /\ Len(out[p]) < Len(orch[p].ret)

\* C14: on every block the fallback gives to extract_product_from_block, the
\* field extractor returns a product or None and does not raise
C14_FieldExtractorNeverRaises ==
    \A p \in Pages :
        orch[p].state = "DeterministicFallback" =>
            \A k \in 1..Len(blocks[p]) :
                (blocks[p][k].len >= 50 /\ HasRupee(blocks[p][k])) =>
                    extract_product_from_block(blocks[p][k], query.keywords).st
                        \in {"ok", "none"}

\* C15: no page gets to its price gate under a query whose min_price is
\* above its max_price
C15_InvalidQueryRejected ==
    \A p \in Pages :
        (pc[p] = "done" /\ orch[p].ret # <<>>) => query.min_price <= query.max_price

\* the response text holds a well-formed JSON array of objects
HoldsArray(r) ==
    /\ r.transport = "ok" /\ r.body = "array"
    /\ \A k \in 1..Len(r.items) : r.items[k].dict

\* C16: a batch whose response holds a well-formed JSON array of objects,
\* alone or with prose before or after it, is parsed to the array's objects;
\* the batch fails only when the response holds no such array
C16_TolerantParsing ==
    \A p \in Pages :
        \A i \in Batches(p) :
            batch[p][i].st = "done" =>
                /\ Succeeded(p, i) <=> HoldsArray(batch[p][i].resp)
                /\ Succeeded(p, i) =>
                       batch[p][i].res.val =
                           FilterParsed(batch[p][i].resp.items, query.keywords, i)

\* C17: every product a batch returns carries the integer of its object's
\* price: the number itself, or the number the digits of a string price
\* form; it has no price only when the object's price holds no integer
C17_PriceCoercion ==
    \A p \in Pages :
        \A i \in Batches(p) :
            Succeeded(p, i) =>
                \A k \in 1..Len(batch[p][i].res.val) :
                    \E j \in 1..Len(batch[p][i].resp.items) :
                        /\ batch[p][i].resp.items[j].title = batch[p][i].res.val[k].title
                        /\ batch[p][i].resp.items[j].price.v = batch[p][i].res.val[k].price

\* C18: the prompt of every batch shows every block of the batch in full
C18_PromptEmbedsWholeBatch ==
    \A p \in Pages :
        \A i \in Batches(p) :
            \A k \in 1..Len(batch[p][i].chunk) :
                PromptBlocks(batch[p][i].chunk)[k] = batch[p][i].chunk[k].len

\* len("\n\n---\n\n".join(chunk))
JoinedLen(chunk) ==
    IF chunk = <<>> THEN 0
    ELSE SumSeq([k \in 1..Len(chunk) |-> chunk[k].len]) + SeparatorLen * (Len(chunk) - 1)

\* C19: the joined text of every batch is no longer than the budget
C19_ChunkBudget ==
    \A p \in Pages : \A i \in Batches(p) : JoinedLen(batch[p][i].chunk) <= MaxChars

\* C20: when the orchestrator returns from the fallback, every product the
\* field extractor makes of a block that survived segmentation is among the
\* returned products
C20_FallbackCoversEveryBlock ==
    \A p \in Pages :
        orch[p].outcome = "fallback" =>
            \A k \in 1..Len(blocks[p]) :
                LET product == extract_product_from_block(blocks[p][k], query.keywords)
                IN product.st = "ok" =>
                       \E j \in 1..Len(orch[p].ret) :
                           /\ orch[p].ret[j].title = product.title
                           /\ orch[p].ret[j].price = product.price

\* the keep rule as a disjunction: a price-like token, a word of the product
\* vocabulary, or a query keyword of more than 2 characters
KeepRule(b, query_keywords) ==
    \/ block_has_price(b)
    \/ BlockWords(b) \cap SegmenterWords # {}
    \/ \E i \in 1..Len(query_keywords) :
           InBlock(query_keywords[i], b) /\ WordLen(query_keywords[i]) > 2

\* C21: the blocks of a fetched page are the spans of at least the minimum
\* length that match no noise pattern and satisfy the keep rule, and no other
C21_SegmenterKeepRule ==
    \A p \in Pages :
        fetch[p] = "ok" =>
            \A k \in 1..Len(site[p]) :
                ~Boilerplate(site[p][k]) =>
                    (KeepRule(site[p][k], query.keywords)
                        <=> site[p][k] \in {blocks[p][j] : j \in 1..Len(blocks[p])})

\* the values of a block's matched tokens within the plausibility bounds
Surviving(b) ==
    {b.tokens[i].digits[1] : i \in {j \in 1..Len(b.tokens) : b.tokens[j].digits # None}}
        \cap PriceFloor..PriceCeiling

\* C22: on every block the fallback gives to the field extractor, a product's
\* price is the maximum of the matched values within [10, 10,000,000], and a
\* block with such a value and a title yields a product
C22_PriceSelection ==
    \A p \in Pages :
        orch[p].state = "DeterministicFallback" =>
            \A k \in 1..Len(blocks[p]) :
                LET b == blocks[p][k]
                    product == extract_product_from_block(b, query.keywords)
                IN (b.len >= 50 /\ HasRupee(b)) =>
                       /\ product.st = "ok" => product.price = Some(Max(Surviving(b)))
                       /\ (Surviving(b) # {} /\ ~b.skip
                              /\ BestTitle(b.titles, query.keywords) # <<>>)
                             => product.st = "ok"

\* the block is one the fallback of page p gave to the field extractor
GivenToExtractor(p, k) ==
    /\ orch[p].state = "DeterministicFallback"
    /\ blocks[p][k].len >= 50 /\ HasRupee(blocks[p][k])

\* the candidates of at least 3 tokens whose score is above the threshold
ThreeTokens(b, keywords) ==
    {i \in 1..Len(b.titles) :
        Len(b.titles[i]) >= 3 /\ TitleScore(b.titles[i], keywords) > 2}

Qualifying(b, keywords) ==
    {i \in 1..Len(b.titles) :
        /\ TitleLen(b.titles[i]) >= 25 /\ WordCount(b.titles[i]) >= 3
        /\ TitleScore(b.titles[i], keywords) > 2}

PlausibilityTested(p) ==
    IF entry = "run_crawl4ai_scraper" /\ pc[p] = "done"
          /\ orch[p].outcome \in {"model", "fallback"}
    THEN LET gated == PageGate(orch[p].ret, query)
         IN {gated[k] : k \in {j \in 1..Len(gated) :
                                  ValidProduct([gated[j] EXCEPT !.price = None])}}
    ELSE {}

Returned(p) == {out[p][k] : k \in 1..Len(out[p])}

\* C24 as claimed: the post-filter drops such a candidate exactly when it has
\* a price outside [10, 10,000,000]
C24_ExtractorBounds ==
    \A p \in Pages :
        \A c \in PlausibilityTested(p) :
            c \in Returned(p) <=> (c.price = None \/ c.price[1] \in PriceFloor..PriceCeiling)

\* C24 as amended: the post-filter drops such a candidate exactly when it has
\* a price outside [50, 10,000,000]
C24_PostFilterBounds ==
    \A p \in Pages :
        \A c \in PlausibilityTested(p) :
            c \in Returned(p)
                <=> (c.price = None \/ c.price[1] \in FilterPriceFloor..PriceCeiling)

\* a candidate priced between 10 and 50 passed the gate and the title tests
\* and was dropped
C24_Witness ==
    \E p \in Pages :
        \E c \in PlausibilityTested(p) :
            /\ c.price # None /\ c.price[1] >= PriceFloor /\ c.price[1] < FilterPriceFloor
            /\ c \notin Returned(p)

\* the products of page p had the gate no keyword test
WithoutKeywordTest(p) ==
    IF entry = "url_scraper" THEN UrlGate(orch[p].ret, query)
    ELSE filter_valid_products(UrlGate(orch[p].ret, query))

\* C25: under a query with keywords every returned title holds a keyword,
\* whatever the case of its letters; under a query without keywords a batch
\* returns every object with a title and the gate drops no candidate for
\* its keywords
C25_KeywordGate ==
    \A p \in Pages :
        /\ (pc[p] = "done" /\ query.keywords # <<>>) =>
               \A k \in 1..Len(out[p]) : AnyKeyword(query.keywords, out[p][k].title)
        /\ query.keywords = <<>> =>
               /\ \A i \in Batches(p) :
                      Succeeded(p, i) =>
                          Len(batch[p][i].res.val) =
                              Cardinality({j \in 1..Len(batch[p][i].resp.items) :
                                              batch[p][i].resp.items[j].title # <<>>})
               /\ (pc[p] = "done" /\ orch[p].outcome \in {"model", "fallback"}) =>
                      out[p] = WithoutKeywordTest(p)

\* C26: while a request of a page is in flight the orchestrator has neither
\* a result nor started the fallback, and the page has returned nothing
C26_GatherAfterAllBatches ==
    \A p \in Pages :
        InFlight(p) > 0 =>
            /\ pc[p] = "gather"
            /\ orch[p].state = "ModelAttempt" /\ orch[p].outcome = "none"
            /\ orch[p].llm = <<>> /\ orch[p].ret = <<>> /\ out[p] = <<>>

\* a batch has resolved, with candidates or with a failure, while another
\* request of the same page is still in flight
C26_Witness ==
    \E p \in Pages :
        /\ InFlight(p) > 0
        /\ \E i \in Batches(p) :
               batch[p][i].st = "done" /\ (~Succeeded(p, i) \/ batch[p][i].res.val # <<>>)

\* the orchestrator of page p has run to its end
Ended(p) == orch[p].state # "idle" /\ (pc[p] = "done" \/ orch[p].outcome # "none")

\* C27: an orchestrator run that has ended has no request in flight and has
\* returned the model candidates or the fallback candidates
C27_Termination ==
    \A p \in Pages :
        Ended(p) =>
            /\ InFlight(p) = 0
            /\ orch[p].outcome \in {"model", "fallback"}
            /\ orch[p].outcome = "model" => (orch[p].ret = orch[p].llm /\ orch[p].llm # <<>>)

\* the lines of text among the entries of a sequence of lines or a string
TextLines(str) == SelectSeq(str, LAMBDA l : l.kind = "text")

\* the place of the n-th line of text
NthText(str, n) ==
    CHOOSE j \in 1..Len(str) :
        str[j].kind = "text" /\ Cardinality({k \in 1..j : str[k].kind = "text"}) = n

\* a blank line stands between the n-th line of text and the next, in the
\* lines of the input
BlankAfter(lines, n) ==
    \E k \in NthText(lines, n)..NthText(lines, n + 1) : lines[k].kind = "blank"

\* the same in a string: two newlines in a row
BoundaryAfter(str, n) ==
    \E k \in NthText(str, n)..(NthText(str, n + 1) - 1) : str[k] = NL /\ str[k + 1] = NL

\* C28: clean returns a string that holds no denylisted line, holds every
\* other non-blank line of its input in the input's order (white space at
\* the line's end, and before the first line, taken off), has no more than
\* two newlines in a row, none at its ends, and a blank line between two
\* lines that survive exactly where the input has one
C28_CleanPreservesStructure ==
    clean_md # None =>
        LET cleaned == clean_md[1]
            kept == TextLines(cleaned)
            given == TextLines(markdown)
        IN /\ \A j \in 1..Len(cleaned) : cleaned[j].kind \in {"text", "newline"}
           /\ Len(kept) = Len(given)
           /\ \A n \in 1..Len(kept) :
                  /\ kept[n].id = given[n].id /\ ~kept[n].trail
                  /\ kept[n].lead = (n > 1 /\ given[n].lead)
           /\ \A j \in 1..(Len(cleaned) - 2) :
                  ~(cleaned[j] = NL /\ cleaned[j + 1] = NL /\ cleaned[j + 2] = NL)
           /\ cleaned # <<>> => (cleaned[1] # NL /\ cleaned[Len(cleaned)] # NL)
           /\ \A n \in 1..(Len(kept) - 1) :
                  BoundaryAfter(cleaned, n) <=> BlankAfter(markdown, n)

\* a markdown with a denylisted line and two blank lines in a row between
\* two lines of text has been cleaned
C28_Witness ==
    /\ clean_md # None
    /\ \E j \in 1..Len(markdown) : IsNoise(markdown[j])
    /\ \E j \in 2..(Len(markdown) - 2) :
           /\ markdown[j].kind = "blank" /\ markdown[j + 1].kind = "blank"
           /\ \E a \in 1..(j - 1) : markdown[a].kind = "text"
           /\ \E b \in (j + 2)..Len(markdown) : markdown[b].kind = "text"
    /\ Len(TextLines(clean_md[1])) >= 2

\* C29: every batch dynamic_chunk made, and every batch a generate request
\* was issued for, holds at least one block
C29_NoEmptyBatch ==
    \A p \in Pages :
        /\ \A i \in Batches(p) : batch[p][i].chunk # <<>>
        /\ \A i \in 1..Len(dynamic_chunk(blocks[p])) : dynamic_chunk(blocks[p])[i] # <<>>

\* C30: every candidate the fallback returned has a price above 10 and no
\* greater than 99,999, whatever the price range of the query
C30_FallbackPriceRange ==
    \A p \in Pages :
        orch[p].outcome = "fallback" =>
            \A k \in 1..Len(orch[p].ret) :
                /\ orch[p].ret[k].price # None
                /\ PriceFloor < orch[p].ret[k].price[1]
                /\ orch[p].ret[k].price[1] <= FallbackMaxPrice

\* the fallback ran over a block the field extractor prices above 99,999 and
\* within the query's range, and over a block whose product it returned
C30_Witness ==
    \E p \in Pages :
        /\ orch[p].outcome = "fallback" /\ orch[p].ret # <<>>
        /\ \E i \in 1..Len(blocks[p]) :
               LET product == extract_product_from_block(blocks[p][i], query.keywords)
               IN /\ blocks[p][i].len >= 50 /\ HasRupee(blocks[p][i])
                  /\ product.st = "ok"
                  /\ product.price[1] > FallbackMaxPrice
                  /\ product.price[1] <= query.max_price

====
